---------------------------- MODULE Spec2Model ----------------------------
(***************************************************************************)
(* Model of services/vector_db.py: the batched, concurrent embedding and   *)
(* indexing pipeline (add_df_to_db_async), the query path (query_db) and   *)
(* the collection reset (clear_db).                                        *)
(*                                                                         *)
(* Ingestion calls are coroutines on one asyncio event loop.  A coroutine  *)
(* runs without interruption from one suspension point to the next, so     *)
(* each action below is one such run: the only suspension point of         *)
(* add_df_to_db_async is the await of asyncio.gather (line 56).  query_db  *)
(* and clear_db are synchronous functions and are one action each.         *)
(***************************************************************************)
EXTENDS Integers, Sequences, FiniteSets, TLC

\* The fields of the model's records and what they hold.  Every record below
\* is written with its fields in this order.
Fields ==
  [all_embeddings |-> "call: the flattened embeddings (line 59)",
   args |-> "add call: ids, documents, embeddings, metadatas",
   arrived |-> "call: the batch results in the order they arrived",
   batch |-> "a batch's number, from 1",
   batch_size |-> "call: the batch_size argument",
   call |-> "add call: the coroutine that issued it",
   chroma |-> "a store state",
   collection |-> "a value of the global handle",
   columns |-> "DataFrame: df.columns",
   content |-> "task: the texts of the request",
   created |-> "store: collections created so far",
   data |-> "DataFrame: the rows' cells",
   delete_failed |-> "clear_db: delete_collection raised",
   df |-> "call: the df argument",
   docs |-> "call: docs",
   document |-> "entry: the text",
   documents |-> "add call, query result: texts",
   embedding |-> "entry: the vector",
   embeddings |-> "add call: vectors",
   embeds |-> "query_db: embedding requests issued",
   embs |-> "batch result: vectors",
   entries |-> "store: the entries of the collection",
   entry |-> "call: the entry point the caller called",
   error |-> "the exception raised (none: returned)",
   exc |-> "the exception a store call raised",
   failed |-> "commit loop: the batch whose add raised",
   fault |-> "a store or service fault was met",
   handle |-> "a collection id",
   hits |-> "query_db: the hits returned",
   i |-> "cell: integer value",
   id |-> "entry: the id",
   ids |-> "call, add call: ids",
   index |-> "DataFrame: the rows' index labels",
   issued |-> "task: requests issued for it",
   kind |-> "exception: its type",
   live |-> "store: id of the existing collection",
   log |-> "commit loop: the add calls issued",
   metadata |-> "entry: the metadata, or None",
   metadatas |-> "add call, query result: metadata",
   metas |-> "call: metas",
   ok |-> "the call returned normally",
   op |-> "the function called",
   outer |-> "call: the future gather returned",
   pc |-> "call: idle, built, awaiting, committing, done, raised",
   queries |-> "query_db: collection.query calls issued",
   rec |-> "a call record",
   results |-> "query_db: what collection.query returned",
   row |-> "metadata, hit: the row label",
   s |-> "cell: string value",
   source |-> "metadata, hit: the source name",
   source_name |-> "call: the source_name argument",
   stale |-> "the handle used was of a deleted collection",
   state |-> "future: pending, result, exception",
   status |-> "task: pending, ok, failed, discarded",
   supplied |-> "call: the batch size the caller supplied, or None",
   t |-> "cell: nan, int, str",
   task_type |-> "vector: the task type it was made for",
   tasks |-> "call: embedding_tasks",
   text |-> "vector, hit: the text"]

\* ---------------------------------------------------------------- bounds
MaxRows == 3          \* rows of an ingested DataFrame: 0..MaxRows
MaxTotalRows == 3     \* rows ingested by all the calls of one run together
MaxBatch == 2         \* batch_size arguments: -1..MaxBatch
MaxTopK == 2          \* top_k arguments: 1..MaxTopK
MaxCollections == 2   \* collections the store creates in one run
MaxFrameRows == 2     \* rows of a DataFrame given to the document builder

DefaultBatchSize == 100       \* batch_size: int = 100

Calls == {"c1", "c2"}         \* the ingestion coroutines of the event loop
Sources == {"s.csv"}          \* source_name arguments
Questions == {"q"}            \* question arguments
BatchSizes == (0 - 1)..MaxBatch
Files == {"data/s.csv"}       \* file_path arguments

Min(a, b) == IF a < b THEN a ELSE b

Range(s) == {s[k] : k \in DOMAIN s}

\* Optional values: Python's None and a present value.
None == <<>>
Some(x) == <<x>>

\* The batch sizes a caller supplies to an entry point: none, or a positive
\* one.
Supplied == {None} \cup {Some(B) : B \in 1..MaxBatch}

\* The batch_size parameter of add_df_to_db_async after argument binding.
BatchSizeArg(supplied) ==
  IF supplied = None THEN DefaultBatchSize ELSE supplied[1]

\* os.path.basename(file_path)
Basename(file_path) == IF file_path = "data/s.csv" THEN "s.csv" ELSE file_path

\* ------------------------------------------------------ DataFrame values
\* A cell is a string, an integer or missing (NaN).
NaN == [i |-> 0, s |-> "", t |-> "nan"]
IntVal(n) == [i |-> n, s |-> "", t |-> "int"]
StrVal(x) == [i |-> 0, s |-> x, t |-> "str"]

\* pd.notna(val)
notna(val) == val.t # "nan"

\* str(val): the text Python prints for a cell; a missing cell prints "nan".
str(val) ==
  IF val.t = "int" THEN ToString(val.i)
  ELSE IF val.t = "str" THEN val.s
  ELSE "nan"

\* The sample table of the module's main block with n rows:
\* {'col1': range(n), 'col2': ['text_<i>' ...]}, default RangeIndex.
SampleDf(n) ==
  [columns |-> <<"col1", "col2">>,
   data |-> [p \in 1..n |-> <<IntVal(p - 1), StrVal("text_" \o ToString(p - 1))>>],
   index |-> [p \in 1..n |-> p - 1]]

\* DataFrames in general: two columns, up to MaxFrameRows rows of present
\* and missing cells, and any index labels, repeated ones included (as
\* pd.concat or set_index leave them).
FrameColumns == <<"a", "b">>
Cells == {NaN, IntVal(7), StrVal("x")}
Labels == 0..(MaxFrameRows - 1)
Frames(maxRows) ==
  UNION {{[columns |-> FrameColumns, data |-> d, index |-> ix] :
            d \in [1..n -> [1..Len(FrameColumns) -> Cells]],
            ix \in [1..n -> Labels]} : n \in 0..maxRows}

\* sep.join(parts)
RECURSIVE Join(_, _)
Join(sep, parts) ==
  IF parts = <<>> THEN ""
  ELSE IF Len(parts) = 1 THEN parts[1]
  ELSE parts[1] \o sep \o Join(sep, Tail(parts))

\* Row values that are str(val) for every cell.
RowValuesStr(row) == [j \in 1..Len(row) |-> str(row[j])]

\* row_values: str(val) for a present cell, "" for a missing one.
RowValues(row) ==
  [j \in 1..Len(row) |-> IF notna(row[j]) THEN str(row[j]) ELSE ""]

\* row_text: "col: val" pairs over zip(df.columns, row_values), ", "-joined.
RowText(columns, row) ==
  LET row_values == RowValues(row)
      n == Min(Len(columns), Len(row_values))
  IN  Join(", ", [j \in 1..n |-> columns[j] \o ": " \o row_values[j]])

\* doc_id = f"{source_name}_row{i}"
DocId(source_name, i) == source_name \o "_row" \o ToString(i)

\* {"source": source_name, "row": int(i)}
Meta(source_name, i) == [row |-> i, source |-> source_name]

\* The document-building loop: docs, ids, metas, one element per row, where
\* i is the row's index label as df.iterrows() yields it.
BuildDocs(df, source_name) ==
  [docs |-> [p \in 1..Len(df.data) |-> RowText(df.columns, df.data[p])],
   ids |-> [p \in 1..Len(df.data) |-> DocId(source_name, df.index[p])],
   metas |-> [p \in 1..Len(df.data) |-> Meta(source_name, df.index[p])]]

\* ------------------------------------------------------ Python built-ins
\* range(0, stop, step) raises ValueError when step is zero.
RangeRaises(step) == step = 0

\* A range that counts down from the last start to 0.
PyRangeDescending(stop, step) ==
  IF step > 0
  THEN LET n == (stop + step - 1) \div step
       IN  [k \in 1..n |-> (n - k) * step]
  ELSE <<>>

\* A range that yields its first element before it tests the bound.
PyRangeAtLeastOnce(stop, step) ==
  IF step > 0
  THEN LET n == (stop + step - 1) \div step
       IN  [k \in 1..(IF n = 0 THEN 1 ELSE n) |-> (k - 1) * step]
  ELSE <<>>

\* range(0, stop, step) for stop >= 0: 0, step, 2*step, ... below stop; empty
\* when step is negative.
PyRange(stop, step) ==
  IF step > 0
  THEN [k \in 1..((stop + step - 1) \div step) |-> (k - 1) * step]
  ELSE <<>>

\* A slice that takes the element at position j as well.
PySliceInclusive(seq, i, j) == SubSeq(seq, i + 1, Min(j + 1, Len(seq)))

\* seq[i:j] for 0 <= i <= j: the elements at (0-based) positions i..j-1 that
\* exist.
PySlice(seq, i, j) == SubSeq(seq, i + 1, Min(j, Len(seq)))


\* ---------------------------------------------------- embedding service
\* The vector the service returns for one text under a task type.
Embedding(text, task_type) == [task_type |-> task_type, text |-> text]

\* get_gemini_embedding: response["embedding"] of a successful request.
get_gemini_embedding(text) == Embedding(text, "default")

\* get_gemini_embeddings_batch_async: response["embedding"] of a successful
\* request, one vector per text, in the order of texts.
get_gemini_embeddings_batch_async(texts) ==
  [j \in 1..Len(texts) |-> Embedding(texts[j], "RETRIEVAL_DOCUMENT")]

\* Tasks of which only the first is launched (a concurrency cap of one).
EmbeddingTasksCapped(docs, batch_size) ==
  LET starts == PyRange(Len(docs), batch_size)
  IN  [k \in 1..Len(starts) |->
         [content |-> PySlice(docs, starts[k], starts[k] + batch_size),
          issued |-> IF k = 1 THEN 1 ELSE 0,
          status |-> "pending"]]

\* The loop that creates the embedding tasks: one per range(0, len(docs),
\* batch_size) start, over docs[i:i + batch_size].
EmbeddingTasks(docs, batch_size) ==
  LET starts == PyRange(Len(docs), batch_size)
  IN  [k \in 1..Len(starts) |->
         [content |-> PySlice(docs, starts[k], starts[k] + batch_size),
          issued |-> 1,
          status |-> "pending"]]

\* ------------------------------------------------------- asyncio.gather
\* Results handed over in the order they arrived.
GatherResultsByArrival(arrived, n) == [k \in 1..n |-> arrived[k].embs]

\* The value gather resolves to: the children's results in the order the
\* children were passed, whatever the order they arrived in.
GatherResults(arrived, n) ==
  [b \in 1..n |-> (CHOOSE a \in Range(arrived) : a.batch = b).embs]

\* A gather that hands a child's exception over as that child's result
\* (return_exceptions=True) instead of raising it.
GatherOnDoneReturnExceptions(rec, b, ok) ==
  LET arrived == Append(rec.arrived,
                   [batch |-> b,
                    embs |-> IF ok
                             THEN get_gemini_embeddings_batch_async(rec.tasks[b].content)
                             ELSE <<>>])
      all == \A k \in DOMAIN rec.tasks :
               k = b \/ rec.tasks[k].status \in {"ok", "failed"}
  IN  [rec EXCEPT !.tasks[b].status = IF ok THEN "ok" ELSE "failed",
                  !.arrived = arrived,
                  !.outer = IF all THEN [batch |-> 0, state |-> "result"] ELSE @]

\* A callback that issues the request of a failed child again.
GatherOnDoneRetry(rec, b, ok) ==
  IF rec.outer.state # "pending"
  THEN [rec EXCEPT !.tasks[b].status = "discarded"]
  ELSE IF ~ok
  THEN [rec EXCEPT !.tasks[b].issued = @ + 1]
  ELSE LET arrived == Append(rec.arrived,
                        [batch |-> b,
                         embs |-> get_gemini_embeddings_batch_async(rec.tasks[b].content)])
           all == \A k \in DOMAIN rec.tasks : k = b \/ rec.tasks[k].status = "ok"
       IN  [rec EXCEPT !.tasks[b].status = "ok",
                       !.arrived = arrived,
                       !.outer = IF all THEN [batch |-> 0, state |-> "result"]
                                 ELSE @]

\* gather's callback for child b finishing (ok: with a result; otherwise with
\* an exception).  The first exception becomes gather's exception; once
\* gather is resolved, later children are ignored.
GatherOnDone(rec, b, ok) ==
  IF rec.outer.state # "pending"
  THEN [rec EXCEPT !.tasks[b].status = "discarded"]
  ELSE IF ~ok
  THEN [rec EXCEPT !.tasks[b].status = "failed",
                   !.outer = [batch |-> b, state |-> "exception"]]
  ELSE LET arrived == Append(rec.arrived,
                        [batch |-> b,
                         embs |-> get_gemini_embeddings_batch_async(rec.tasks[b].content)])
           all == \A k \in DOMAIN rec.tasks : k = b \/ rec.tasks[k].status = "ok"
       IN  [rec EXCEPT !.tasks[b].status = "ok",
                       !.arrived = arrived,
                       !.outer = IF all THEN [batch |-> 0, state |-> "result"]
                                 ELSE @]

\* all_embeddings: the batch results flattened, batch after batch.
RECURSIVE Flatten(_)
Flatten(results) ==
  IF results = <<>> THEN <<>> ELSE Head(results) \o Flatten(Tail(results))

\* ---------------------------------------------------------- vector store
\* chroma: live is the id of the existing collection named "data_collection"
\* (0 when there is none), entries its contents, created the number of
\* collections created so far.  A handle is a collection id; a handle whose
\* collection was deleted is stale and every operation through it fails.
Stale(chroma, handle) == chroma.live = 0 \/ handle # chroma.live

\* collection.add(ids, documents, embeddings, metadatas) through handle.
CollectionAdd(chroma, handle, args, fault) ==
  LET n == Len(args.ids)
      ok == /\ ~fault
            /\ ~Stale(chroma, handle)
            /\ Len(args.documents) = n
            /\ Len(args.embeddings) = n
            /\ Len(args.metadatas) = n
  IN  [chroma |->
         IF ok
         THEN [chroma EXCEPT !.entries = @ \o
                 [j \in 1..n |-> [document |-> args.documents[j],
                                  embedding |-> args.embeddings[j],
                                  id |-> args.ids[j],
                                  metadata |-> Some(args.metadatas[j])]]]
         ELSE chroma,
       ok |-> ok]

\* A commit loop that goes on after an add raised.
CommitNeverStops(acc) == FALSE

\* An exception raised by collection.add leaves the commit loop.
CommitStops(acc) == acc.failed # 0

\* An add that is awaited: the coroutine is suspended at every add.
AddSuspendsAwaited == TRUE

\* collection.add is a plain call (line 62 has no await): the commit loop has
\* no suspension point.
AddSuspends == FALSE

\* The commit loop from its k-th iteration on, up to its end or to its next
\* suspension.  acc carries the store, the add calls issued so far and the
\* batch whose add raised (0: none).
RECURSIVE CommitFrom(_, _, _, _, _, _, _)
CommitFrom(k, starts, rec, c, handle, fault, acc) ==
  IF k > Len(starts) \/ CommitStops(acc) \/ (AddSuspends /\ acc.log # <<>>)
  THEN acc
  ELSE LET i == starts[k]
           B == rec.batch_size
           args == [documents |-> PySlice(rec.docs, i, i + B),
                    embeddings |-> PySlice(rec.all_embeddings, i, i + B),
                    ids |-> PySlice(rec.ids, i, i + B),
                    metadatas |-> PySlice(rec.metas, i, i + B)]
           r == CollectionAdd(acc.chroma, handle, args, fault = k)
       IN  CommitFrom(k + 1, starts, rec, c, handle, fault,
             [chroma |-> r.chroma,
              failed |-> IF r.ok THEN 0 ELSE k,
              log |-> Append(acc.log,
                        [args |-> args, batch |-> k, call |-> c,
                         handle |-> handle, ok |-> r.ok,
                         stale |-> Stale(acc.chroma, handle)])])

\* The commit loop of call c run from its k-th iteration: one collection.add
\* per range(0, len(ids), batch_size) start, then the return.
CommitLoop(rec1, c, k, chroma, handle, fault) ==
  LET starts == PyRange(Len(rec1.ids), rec1.batch_size)
      acc == CommitFrom(k, starts, rec1, c, handle, fault,
                        [chroma |-> chroma, failed |-> 0, log |-> <<>>])
  IN  [chroma |-> acc.chroma,
       log |-> acc.log,
       rec |-> IF acc.failed # 0
               THEN [rec1 EXCEPT !.pc = "raised",
                                 !.error = [batch |-> acc.failed,
                                            kind |-> "StoreError"]]
               ELSE IF k - 1 + Len(acc.log) < Len(starts)
               THEN [rec1 EXCEPT !.pc = "committing"]
               ELSE [rec1 EXCEPT !.pc = "done"]]

\* add_df_to_db_async after the gather returned results: flatten, then the
\* commit loop.
AfterGather(rec, c, results, chroma, handle, fault) ==
  CommitLoop([rec EXCEPT !.all_embeddings = Flatten(results)], c, 1,
             chroma, handle, fault)

\* collection.query(query_embeddings=[q_emb], n_results) on a live
\* collection: the n_results nearest entries (fewer when the collection is
\* smaller), best first.  The similarity order is the store's business: rank
\* is the order it came up with, a sequence of distinct entry positions.
CollectionQuery(chroma, q_emb, n_results, rank) ==
  [documents |-> <<[k \in 1..Len(rank) |-> chroma.entries[rank[k]].document]>>,
   metadatas |-> <<[k \in 1..Len(rank) |-> chroma.entries[rank[k]].metadata]>>]

\* The rankings a store holding n entries answers a top-k query with: of
\* all the similarity orders, the one that ranks the oldest entries first
\* and the one that ranks the newest entries first.
Rankings(n, top_k) ==
  {[k \in 1..Min(top_k, n) |-> k], [k \in 1..Min(top_k, n) |-> n + 1 - k]}

\* chroma_client.delete_collection(name): raises ValueError when there is no
\* such collection, StoreError on a store fault.
DeleteCollection(chroma, fault) ==
  IF fault THEN [chroma |-> chroma, exc |-> "StoreError"]
  ELSE IF chroma.live = 0 THEN [chroma |-> chroma, exc |-> "ValueError"]
  ELSE [chroma |-> [chroma EXCEPT !.live = 0, !.entries = <<>>], exc |-> "none"]

\* chroma_client.get_or_create_collection(name): the existing collection, or
\* a new empty one under a new id.
GetOrCreateCollection(chroma, fault) ==
  IF fault THEN [chroma |-> chroma, exc |-> "StoreError", handle |-> 0]
  ELSE IF chroma.live # 0
  THEN [chroma |-> chroma, exc |-> "none", handle |-> chroma.live]
  ELSE [chroma |-> [created |-> chroma.created + 1, entries |-> <<>>,
                    live |-> chroma.created + 1],
        exc |-> "none",
        handle |-> chroma.created + 1]

\* --------------------------------------------------------------- clear_db
\* The try block: delete_collection, then the global handle is rebound to
\* get_or_create_collection's result.  An exception leaves the block at once.
ClearDbTry(chroma, handle, delFault, createFault) ==
  LET d == DeleteCollection(chroma, delFault)
      g == GetOrCreateCollection(d.chroma, createFault)
  IN  IF d.exc # "none"
      THEN [chroma |-> d.chroma, collection |-> handle,
            delete_failed |-> TRUE, exc |-> d.exc]
      ELSE IF g.exc # "none"
      THEN [chroma |-> g.chroma, collection |-> handle,
            delete_failed |-> FALSE, exc |-> g.exc]
      ELSE [chroma |-> g.chroma, collection |-> g.handle,
            delete_failed |-> FALSE, exc |-> "none"]

\* A handler for the missing collection only ("except ValueError").
ExceptValueError(exc) == exc = "ValueError"

\* "except Exception": every exception of the try block is caught (and
\* printed).
ExceptException(exc) == exc \in {"ValueError", "StoreError"}

\* The exception clear_db raises to its caller ("none": returns normally).
ClearDbRaises(exc) == IF exc = "none" \/ ExceptException(exc) THEN "none" ELSE exc

\* --------------------------------------------------------------- query_db
\* Hits only for the documents that have metadata.
HitsOfPresentMetadata(results) ==
  LET docs == results.documents[1]
      metadatas == results.metadatas[1]
      Present(i) == metadatas[i] # None
      kept == SelectSeq([i \in 1..Len(docs) |-> i], Present)
  IN  [k \in 1..Len(kept) |->
         [row |-> Some(metadatas[kept[k]][1].row),
          source |-> Some(metadatas[kept[k]][1].source),
          text |-> docs[kept[k]]]]

\* The hits built from the store's results: meta = metadatas[i] or {}, then
\* meta.get("source") and meta.get("row").
Hits(results) ==
  LET docs == results.documents[1]
      metadatas == results.metadatas[1]
  IN  [i \in 1..Len(docs) |->
         [row |-> IF metadatas[i] = None THEN None
                  ELSE Some(metadatas[i][1].row),
          source |-> IF metadatas[i] = None THEN None
                     ELSE Some(metadatas[i][1].source),
          text |-> docs[i]]]

\* ------------------------------------------------------------------ state
VARIABLES
  call,        \* per ingestion coroutine: its locals and its position
  chroma,      \* the vector store behind chroma_client
  collection,  \* the module-global collection handle
  addLog,      \* every collection.add call issued, in issue order
  last         \* the synchronous call (query_db, clear_db) that ran last, and
               \* how it ended; LoopStep after a step of a coroutine

vars == <<call, chroma, collection, addLog, last>>

NoError == [batch |-> 0, kind |-> "none"]

IdleCall ==
  [all_embeddings |-> <<>>, arrived |-> <<>>, batch_size |-> 0,
   df |-> [columns |-> <<>>, data |-> <<>>, index |-> <<>>],
   docs |-> <<>>, entry |-> "", error |-> NoError, ids |-> <<>>,
   metas |-> <<>>, outer |-> [batch |-> 0, state |-> "pending"],
   pc |-> "idle", source_name |-> "", supplied |-> None, tasks |-> <<>>]

\* The results of a store query that returned nothing.
NoResults == [documents |-> <<<<>>>>, metadatas |-> <<<<>>>>]

Event(op, error) ==
  [delete_failed |-> FALSE, embeds |-> 0, error |-> error, fault |-> FALSE,
   hits |-> <<>>, op |-> op, queries |-> 0, results |-> NoResults,
   stale |-> FALSE]

LoopStep == Event("loop", "none")

\* An entry a previous run left in the persistent store, added without
\* metadata.
LegacyEntry ==
  [document |-> "legacy",
   embedding |-> Embedding("legacy", "RETRIEVAL_DOCUMENT"),
   id |-> "legacy", metadata |-> None]

\* Module import: the client opens ./chroma_db, which holds the collection of
\* a previous run, and binds the global handle to it.  (The empty collection
\* is what a clear_db leaves.)
Init ==
  /\ call = [c \in Calls |-> IdleCall]
  /\ chroma = [created |-> 1, entries |-> <<LegacyEntry>>, live |-> 1]
  /\ collection = 1
  /\ addLog = <<>>
  /\ last = Event("import", "none")

\* The collection.add calls call c issued, in issue order.
AddsOf(c) ==
  LET ByC(a) == a.call = c
  IN  SelectSeq(addLog, ByC)

\* ---------------------------------------------------------------- actions
\* The coroutines are interchangeable: they are numbered in the order they
\* are started.
CallBefore(d, c) == d = "c1" /\ c = "c2"

\* The rows the calls started so far were given.
RECURSIVE RowsStarted(_)
RowsStarted(cs) ==
  IF cs = {} THEN 0
  ELSE LET c == CHOOSE x \in cs : TRUE
       IN  Len(call[c].df.data) + RowsStarted(cs \ {c})

\* The call record of a call made through entry with the batch size
\* supplied.
CallOf(entry, supplied) ==
  [IdleCall EXCEPT !.entry = entry, !.supplied = supplied]

\* The body of add_df_to_db_async(df, source_name, batch_size) from its first
\* line to the await of gather; to its return when gather has nothing to wait
\* for.  rec0 is the record of the call.
StartFrom(c, rec0, df, source_name, batch_size) ==
  /\ call[c].pc = "idle"
  /\ \A d \in Calls : CallBefore(d, c) => call[d].pc # "idle"
  /\ RowsStarted(Calls) + Len(df.data) <= MaxTotalRows
  /\ LET built == BuildDocs(df, source_name)
         rec == [rec0 EXCEPT !.source_name = source_name,
                                 !.batch_size = batch_size,
                                 !.df = df,
                                 !.docs = built.docs,
                                 !.ids = built.ids,
                                 !.metas = built.metas]
     IN  IF RangeRaises(batch_size)
         THEN /\ call' = [call EXCEPT ![c] =
                   [rec EXCEPT !.pc = "raised",
                               !.error = [batch |-> 0, kind |-> "ValueError"]]]
              /\ last' = LoopStep
              /\ UNCHANGED <<chroma, collection, addLog>>
         ELSE LET tasks == EmbeddingTasks(built.docs, batch_size)
              IN  IF tasks # <<>>
                  THEN /\ call' = [call EXCEPT ![c] =
                            [rec EXCEPT !.pc = "awaiting", !.tasks = tasks]]
                       /\ last' = LoopStep
                       /\ UNCHANGED <<chroma, collection, addLog>>
                  ELSE LET r == AfterGather(rec, c, <<>>, chroma, collection, 0)
                       IN  /\ call' = [call EXCEPT ![c] = r.rec]
                           /\ chroma' = r.chroma
                           /\ addLog' = addLog \o r.log
                           /\ last' = LoopStep
                           /\ UNCHANGED collection

\* add_df_to_db_async(df, source_name, batch_size) called as a coroutine of
\* the event loop.
Start(c, df, source_name, batch_size) ==
  StartFrom(c, CallOf("add_df_to_db_async", Some(batch_size)),
            df, source_name, batch_size)

\* The embedding request of batch b of call c completes, with the vectors
\* or with an error, and gather's callback runs.
Complete(c, b, ok) ==
  /\ call[c].pc # "idle"
  /\ b \in DOMAIN call[c].tasks
  /\ call[c].tasks[b].status = "pending"
  /\ call' = [call EXCEPT ![c] = GatherOnDone(call[c], b, ok)]
  /\ last' = LoopStep
  /\ UNCHANGED <<chroma, collection, addLog>>

\* add_df_to_db_async resumes from the await of gather: with gather's
\* exception, which it does not catch, or with the results, and then runs to
\* its end (or, were there one, from a suspension point of the commit loop).
\* fault is the batch whose collection.add meets a store fault (0: none
\* does).
Resume(c, fault) ==
  /\ \/ call[c].pc = "awaiting" /\ call[c].outer.state # "pending"
     \/ call[c].pc = "committing"
  /\ fault \in 0..Len(call[c].tasks)
  /\ IF call[c].pc = "committing"
     THEN LET r == CommitLoop(call[c], c, Len(AddsOf(c)) + 1, chroma,
                              collection, fault)
          IN  /\ call' = [call EXCEPT ![c] = r.rec]
              /\ chroma' = r.chroma
              /\ addLog' = addLog \o r.log
              /\ last' = LoopStep
              /\ UNCHANGED collection
     ELSE IF call[c].outer.state = "exception"
     THEN /\ fault = 0
          /\ call' = [call EXCEPT ![c].pc = "raised",
                                  ![c].error = [batch |-> call[c].outer.batch,
                                                kind |-> "EmbeddingServiceError"]]
          /\ last' = LoopStep
          /\ UNCHANGED <<chroma, collection, addLog>>
     ELSE LET results == GatherResults(call[c].arrived, Len(call[c].tasks))
              r == AfterGather(call[c], c, results, chroma, collection, fault)
          IN  /\ call' = [call EXCEPT ![c] = r.rec]
              /\ chroma' = r.chroma
              /\ addLog' = addLog \o r.log
              /\ last' = LoopStep
              /\ UNCHANGED collection

\* query_db(question, top_k).  fault: "embedding" when the embedding request
\* meets a fault, "store" when the store's query does, "none"; rank: the
\* store's similarity order.  What a query does depends on the store and the
\* handle only, which an ingestion call changes in its commit step alone: the
\* queries are taken at the points where no ingestion call is suspended.
query_db(question, top_k, fault, rank) ==
  /\ \A d \in Calls : call[d].pc # "awaiting"
  /\ fault # "none" \/ rank \in Rankings(Len(chroma.entries), top_k)
  /\ LET q_emb == get_gemini_embedding(question)
         results == CollectionQuery(chroma, q_emb, top_k, rank)
         ev == [Event("query_db", "none") EXCEPT !.embeds = 1,
                                                 !.fault = (fault # "none")]
     IN  last' =
           IF fault = "embedding"
           THEN [ev EXCEPT !.error = "EmbeddingServiceError"]
           ELSE IF fault = "store" \/ Stale(chroma, collection)
           THEN [ev EXCEPT !.error = "StoreError",
                           !.queries = 1,
                           !.stale = Stale(chroma, collection)]
           ELSE [ev EXCEPT !.hits = Hits(results),
                           !.queries = 1,
                           !.results = results]
  /\ UNCHANGED <<call, chroma, collection, addLog>>

\* clear_db().  fault: the store call that meets a store fault, "delete"
\* (delete_collection), "create" (get_or_create_collection) or "none".
clear_db(fault) ==
  /\ chroma.created < MaxCollections
  /\ LET t == ClearDbTry(chroma, collection, fault = "delete", fault = "create")
     IN  /\ chroma' = t.chroma
         /\ collection' = t.collection
         /\ last' = [Event("clear_db", ClearDbRaises(t.exc)) EXCEPT
                       !.delete_failed = t.delete_failed,
                       !.fault = (fault # "none")]
  /\ UNCHANGED <<call, addLog>>

Next ==
  \/ \E c \in Calls, n \in 0..MaxRows, s \in Sources, B \in BatchSizes :
       Start(c, SampleDf(n), s, B)
  \/ \E c \in Calls, b \in 1..MaxRows, ok \in BOOLEAN : Complete(c, b, ok)
  \/ \E c \in Calls, fault \in 0..MaxRows : Resume(c, fault)
  \/ \E q \in Questions :
       \/ \E fault \in {"embedding", "store"} : query_db(q, MaxTopK, fault, <<>>)
       \/ \E k \in 1..MaxTopK : \E rank \in Rankings(Len(chroma.entries), k) :
            query_db(q, k, "none", rank)
  \/ \E fault \in {"none", "delete", "create"} : clear_db(fault)

Spec == Init /\ [][Next]_vars

\* ------------------------------------------------------ the entry points
\* A script calls the ingestion entry points one after the other:
\* asyncio.run blocks its caller until the coroutine is over.
Blocked == \E d \in Calls : call[d].pc = "awaiting"

\* A call that Python rejects because the function has no parameter for an
\* argument it was given.
TypeErrorCall(entry, supplied, df, source_name) ==
  [CallOf(entry, supplied) EXCEPT
     !.df = df, !.source_name = source_name, !.pc = "raised",
     !.error = [batch |-> 0, kind |-> "TypeError"]]

\* asyncio.run(add_df_to_db_async(df, source_name[, batch_size])).
run_add_df_to_db_async(c, df, source_name, supplied) ==
  /\ ~Blocked
  /\ StartFrom(c, CallOf("add_df_to_db_async", supplied), df, source_name,
               BatchSizeArg(supplied))

\* The body of add_df_to_db(df, source_name): add_df_to_db_async is called
\* without a batch size.
add_df_to_db_body(c, entry, df, source_name) ==
  StartFrom(c, CallOf(entry, None), df, source_name, BatchSizeArg(None))

\* add_df_to_db(df, source_name[, batch_size]): the function takes df and
\* source_name only.
add_df_to_db(c, df, source_name, supplied) ==
  /\ ~Blocked
  /\ IF supplied # None
     THEN /\ call[c].pc = "idle"
          /\ \A d \in Calls : CallBefore(d, c) => call[d].pc # "idle"
          /\ call' = [call EXCEPT ![c] =
                TypeErrorCall("add_df_to_db", supplied, df, source_name)]
          /\ last' = LoopStep
          /\ UNCHANGED <<chroma, collection, addLog>>
     ELSE add_df_to_db_body(c, "add_df_to_db", df, source_name)

\* pd.read_csv(file_path) of a file holding n rows of the sample table.
ReadCsv(file_path, n) == SampleDf(n)

\* add_csv_to_db(file_path[, batch_size]): the function takes file_path only.
add_csv_to_db(c, file_path, n, supplied) ==
  /\ ~Blocked
  /\ LET df == ReadCsv(file_path, n)
         source_name == Basename(file_path)
     IN  IF supplied # None
         THEN /\ call[c].pc = "idle"
              /\ \A d \in Calls : CallBefore(d, c) => call[d].pc # "idle"
              /\ call' = [call EXCEPT ![c] =
                    TypeErrorCall("add_csv_to_db", supplied, df, source_name)]
              /\ last' = LoopStep
              /\ UNCHANGED <<chroma, collection, addLog>>
         ELSE add_df_to_db_body(c, "add_csv_to_db", df, source_name)

EntryNext ==
  \/ \E c \in Calls, n \in 0..MaxRows, s \in Sources, supplied \in Supplied :
       run_add_df_to_db_async(c, SampleDf(n), s, supplied)
  \/ \E c \in Calls, n \in 0..MaxRows, s \in Sources, supplied \in Supplied :
       add_df_to_db(c, SampleDf(n), s, supplied)
  \/ \E c \in Calls, f \in Files, n \in 0..MaxRows, supplied \in Supplied :
       add_csv_to_db(c, f, n, supplied)
  \/ \E c \in Calls, b \in 1..MaxRows, ok \in BOOLEAN : Complete(c, b, ok)
  \/ \E c \in Calls, fault \in 0..MaxRows : Resume(c, fault)

EntrySpec == Init /\ [][EntryNext]_vars

\* ------------------------------------------------- the document builder
\* The document-building loop (lines 40-47) on its own, over DataFrames in
\* general: a call is given df and source_name, then runs the loop.
BuildInit ==
  /\ \E df \in Frames(MaxFrameRows), source_name \in Sources :
       call = [c \in Calls |->
                 IF c = "c1"
                 THEN [IdleCall EXCEPT !.df = df, !.source_name = source_name]
                 ELSE IdleCall]
  /\ chroma = [created |-> 1, entries |-> <<LegacyEntry>>, live |-> 1]
  /\ collection = 1
  /\ addLog = <<>>
  /\ last = Event("import", "none")

Build(c) ==
  /\ call[c].pc = "idle"
  /\ LET built == BuildDocs(call[c].df, call[c].source_name)
     IN  call' = [call EXCEPT ![c].docs = built.docs,
                              ![c].ids = built.ids,
                              ![c].metas = built.metas,
                              ![c].pc = "built"]
  /\ UNCHANGED <<chroma, collection, addLog, last>>

BuildNext == \E c \in Calls : Build(c)

BuildSpec == BuildInit /\ [][BuildNext]_vars

\* ----------------------------------------------------------------- claims
Ceil(n, d) == (n + d - 1) \div d

\* Call c got the results of its gather (and went on to the commit loop).
Gathered(c) ==
  \/ call[c].pc = "done"
  \/ call[c].pc = "raised" /\ call[c].error.kind = "StoreError"

\* The vector the embedding service returns for a document text.
ServiceVector(text) == [task_type |-> "RETRIEVAL_DOCUMENT", text |-> text]

\* C1: for every document count N, batch size B >= 1 and completion order of
\* the batch requests, the flattened embedding sequence has length N and its
\* i-th element is the vector the service returned for document i.
C1_EmbeddingsAligned ==
  \A c \in Calls :
    (Gathered(c) /\ call[c].batch_size >= 1) =>
      /\ Len(call[c].all_embeddings) = Len(call[c].df.data)
      /\ \A i \in 1..Len(call[c].df.data) :
           call[c].all_embeddings[i] = ServiceVector(call[c].docs[i])

\* A call got its results although a later batch's request completed first.
C1_Witness ==
  \E c \in Calls :
    /\ Gathered(c)
    /\ call[c].batch_size >= 1
    /\ Len(call[c].arrived) >= 2
    /\ call[c].arrived[1].batch # 1

\* C2: a call that completes without failure has passed every row to
\* collection.add exactly once, as (id "<source>_row<i>", text, embedding,
\* metadata {source, row: i}) of that row; as many entries as rows.
RECURSIVE AddedIds(_)
AddedIds(adds) ==
  IF adds = <<>> THEN <<>> ELSE Head(adds).args.ids \o AddedIds(Tail(adds))

RECURSIVE AddedDocuments(_)
AddedDocuments(adds) ==
  IF adds = <<>> THEN <<>>
  ELSE Head(adds).args.documents \o AddedDocuments(Tail(adds))

RECURSIVE AddedEmbeddings(_)
AddedEmbeddings(adds) ==
  IF adds = <<>> THEN <<>>
  ELSE Head(adds).args.embeddings \o AddedEmbeddings(Tail(adds))

RECURSIVE AddedMetadatas(_)
AddedMetadatas(adds) ==
  IF adds = <<>> THEN <<>>
  ELSE Head(adds).args.metadatas \o AddedMetadatas(Tail(adds))

RowsCommitted(c) ==
  LET adds == AddsOf(c)
      df == call[c].df
      src == call[c].source_name
      N == Len(df.data)
  IN  /\ \A k \in 1..Len(adds) : adds[k].ok
      /\ Len(AddedIds(adds)) = N
      /\ Len(AddedDocuments(adds)) = N
      /\ Len(AddedEmbeddings(adds)) = N
      /\ Len(AddedMetadatas(adds)) = N
      /\ \A p \in 1..N :
           /\ AddedIds(adds)[p] = src \o "_row" \o ToString(df.index[p])
           /\ AddedDocuments(adds)[p] = RowText(df.columns, df.data[p])
           /\ AddedEmbeddings(adds)[p] = ServiceVector(RowText(df.columns, df.data[p]))
           /\ AddedMetadatas(adds)[p] = [row |-> df.index[p], source |-> src]

C2_EveryRowCommittedOnce ==
  \A c \in Calls : call[c].pc = "done" => RowsCommitted(c)

\* C3: for N documents and batch size B >= 1 the embedding requests and the
\* add calls split the documents into ceil(N/B) contiguous batches in order,
\* all of size B but possibly the last, with the same boundaries.
BatchOf(seq, k, B) ==
  [j \in 1..(Min(k * B, Len(seq)) - (k - 1) * B) |-> seq[(k - 1) * B + j]]

C3_BatchBoundaries ==
  \A c \in Calls :
    (call[c].pc # "idle" /\ call[c].batch_size >= 1) =>
      LET B == call[c].batch_size
          N == Len(call[c].docs)
          nb == Ceil(N, B)
          tasks == call[c].tasks
          adds == AddsOf(c)
      IN  /\ Len(tasks) = nb
          /\ \A k \in 1..nb :
               /\ tasks[k].content = BatchOf(call[c].docs, k, B)
               /\ Len(tasks[k].content) >= 1
               /\ Len(tasks[k].content) <= B
               /\ k < nb => Len(tasks[k].content) = B
          /\ Len(adds) <= nb
          /\ call[c].pc = "done" => Len(adds) = nb
          /\ \A k \in 1..Len(adds) :
               /\ adds[k].batch = k
               /\ adds[k].args.documents = tasks[k].content
               /\ adds[k].args.ids = BatchOf(call[c].ids, k, B)
               /\ adds[k].args.metadatas = BatchOf(call[c].metas, k, B)
               /\ Len(adds[k].args.embeddings) = Len(tasks[k].content)

\* A call completed whose last batch is smaller than the batch size.
C3_Witness ==
  \E c \in Calls :
    /\ call[c].pc = "done"
    /\ call[c].batch_size = 2
    /\ Len(call[c].docs) = 3
    /\ Len(AddsOf(c)) = 2
    /\ Len(AddsOf(c)[2].args.ids) = 1

\* C4: if the embedding request of any batch fails, the call fails with that
\* error and never issues a collection.add: no step of it touches the store.
EmbeddingFailed(rec) == \E b \in DOMAIN rec.tasks : rec.tasks[b].status = "failed"

C4_EmbeddingFailureAborts ==
  /\ [](\A c \in Calls :
          EmbeddingFailed(call[c]) =>
            /\ AddsOf(c) = <<>>
            /\ call[c].pc \in {"awaiting", "raised"}
            /\ call[c].pc = "raised" =>
                 /\ call[c].error.kind = "EmbeddingServiceError"
                 /\ call[c].tasks[call[c].error.batch].status = "failed")
  /\ [][\A c \in Calls :
          (EmbeddingFailed(call'[c]) /\ call'[c] # call[c]) =>
            (chroma' = chroma /\ addLog' = addLog)]_vars

\* A call failed on one batch's request after another batch's had succeeded.
C4_Witness ==
  \E c \in Calls :
    /\ call[c].pc = "raised"
    /\ call[c].error.kind = "EmbeddingServiceError"
    /\ call[c].error.batch = 1
    /\ \E b \in DOMAIN call[c].tasks : call[c].tasks[b].status = "ok"

\* C5: if the collection.add of batch k fails, the error reaches the caller,
\* the batches before k stay committed and no add is issued after k.
C5_PartialCommit ==
  /\ [](\A c \in Calls :
          LET adds == AddsOf(c)
          IN  \A k \in 1..Len(adds) :
                ~adds[k].ok =>
                  /\ k = Len(adds)
                  /\ adds[k].batch = k
                  /\ \A j \in 1..(k - 1) : adds[j].ok
                  /\ call[c].pc = "raised"
                  /\ call[c].error = [batch |-> k, kind |-> "StoreError"])
  /\ [][\A c \in Calls :
          (call[c].pc = "awaiting" /\ call'[c].pc = "raised"
             /\ call'[c].error.kind = "StoreError") =>
            LET before == (call'[c].error.batch - 1) * call'[c].batch_size
                old == Len(chroma.entries)
            IN  /\ Len(chroma'.entries) = old + before
                /\ \A j \in 1..old : chroma'.entries[j] = chroma.entries[j]
                /\ \A j \in 1..before :
                     /\ chroma'.entries[old + j].id = call'[c].ids[j]
                     /\ chroma'.entries[old + j].document = call'[c].docs[j]]_vars

\* The add of the second of three batches failed: the first batch is in the
\* collection.
C5_Witness ==
  \E c \in Calls :
    /\ call[c].pc = "raised"
    /\ call[c].error = [batch |-> 2, kind |-> "StoreError"]
    /\ Len(call[c].tasks) = 3
    /\ \E j \in DOMAIN chroma.entries : chroma.entries[j].id = call[c].ids[1]

\* C6: clear_db never raises to its caller, whichever of its two store calls
\* fails.
C6_ClearNeverRaises == last.op = "clear_db" => last.error = "none"

\* A clear_db returned after one of its store calls met a fault.
C6_Witness == last.op = "clear_db" /\ last.fault /\ last.error = "none"

\* C7: when the delete step of clear_db fails, the failure is only logged and
\* the global handle is rebound to a fresh empty collection.
C7_HandleReboundAfterDeleteFailure ==
  (last.op = "clear_db" /\ last.delete_failed) =>
    /\ last.error = "none"
    /\ ~Stale(chroma, collection)
    /\ chroma.entries = <<>>

\* C8: a clear_db followed by a query_db, with no ingestion in between,
\* returns no hits and raises no error (a query that meets no fault of the
\* embedding service or the store).
C8_ResetThenQueryEmpty ==
  [][(last.op = "clear_db" /\ last'.op = "query_db" /\ ~last'.fault) =>
       (last'.error = "none" /\ last'.hits = <<>>)]_vars

\* C9: no query and no collection.add is ever performed through a handle
\* whose collection has been deleted.
C9_NoStaleHandleUse ==
  /\ last.op = "query_db" => ~last.stale
  /\ \A k \in DOMAIN addLog : ~addLog[k].stale

\* C10: a call with a batch_size that is zero or negative raises a validation
\* error at once: it never completes and issues no embedding request and no
\* collection.add.
C10_InvalidBatchSizeRejected ==
  \A c \in Calls :
    (call[c].pc # "idle" /\ call[c].batch_size <= 0) =>
      /\ call[c].pc = "raised"
      /\ call[c].error.kind = "ValueError"
      /\ call[c].tasks = <<>>
      /\ AddsOf(c) = <<>>

\* C11: query_db issues one embedding request and one store query, leaves the
\* collection as it was and returns one hit per document the store returned,
\* in the store's order: hit i has the text documents[i] and the source and
\* row of metadatas[i], both null when that metadata is absent; absent
\* metadata raises nothing.
C11_QueryShape ==
  /\ [](last.op = "query_db" =>
          /\ last.embeds = 1
          /\ last.queries <= 1
          /\ (last.error = "none" \/ last.stale) => last.queries = 1
          /\ ~last.fault => last.error \in {"none", "StoreError"}
          /\ (~last.fault /\ ~last.stale) => last.error = "none"
          /\ last.error = "none" =>
                LET documents == last.results.documents[1]
                    metadatas == last.results.metadatas[1]
                IN  /\ Len(last.hits) = Len(documents)
                    /\ Len(metadatas) = Len(documents)
                    /\ \A i \in 1..Len(documents) :
                         /\ last.hits[i].text = documents[i]
                         /\ metadatas[i] = None =>
                              /\ last.hits[i].source = None
                              /\ last.hits[i].row = None
                         /\ metadatas[i] # None =>
                              /\ last.hits[i].source = <<metadatas[i][1].source>>
                              /\ last.hits[i].row = <<metadatas[i][1].row>>)
  /\ [][last'.op = "query_db" =>
          (chroma' = chroma /\ collection' = collection /\ addLog' = addLog)]_vars

\* A query returned two hits, the first for an entry without metadata, the
\* second for an ingested row.
C11_Witness ==
  /\ last.op = "query_db"
  /\ last.error = "none"
  /\ Len(last.hits) = 2
  /\ last.hits[1] = [row |-> None, source |-> None, text |-> "legacy"]
  /\ last.hits[2].source = <<"s.csv">>
  /\ last.hits[2].row = <<0>>

\* C12: the ids built in one ingestion call are pairwise distinct, each id is
\* "<source>_row<row>" for the row value stored in the metadata of the same
\* row, and building again from the same dataset and source name gives the
\* same ids.
C12_IdsDistinctAndDeterministic ==
  \A c \in Calls :
    call[c].pc = "built" =>
      LET ids == call[c].ids
          metas == call[c].metas
      IN  /\ Len(ids) = Len(call[c].df.data)
          /\ Len(metas) = Len(ids)
          /\ \A p \in 1..Len(ids) :
               /\ ids[p] = call[c].source_name \o "_row" \o ToString(metas[p].row)
               /\ metas[p].source = call[c].source_name
          /\ \A p, q \in 1..Len(ids) : p # q => ids[p] # ids[q]
          /\ BuildDocs(call[c].df, call[c].source_name).ids = ids

\* C13: the text of a row is its "column: value" pairs in column order joined
\* by ", ", a missing value giving "column: " with nothing after it; a missing
\* value never makes the builder fail.
CellText(val) ==
  IF val.t = "nan" THEN ""
  ELSE IF val.t = "int" THEN ToString(val.i)
  ELSE val.s

RECURSIVE SerializedFrom(_, _, _)
SerializedFrom(j, columns, row) ==
  IF j > Len(columns) THEN ""
  ELSE (IF j > 1 THEN ", " ELSE "") \o columns[j] \o ": " \o CellText(row[j])
         \o SerializedFrom(j + 1, columns, row)

C13_RowTextMissingEmpty ==
  \A c \in Calls :
    call[c].pc = "built" =>
      /\ Len(call[c].docs) = Len(call[c].df.data)
      /\ \A p \in 1..Len(call[c].docs) :
           call[c].docs[p] =
             SerializedFrom(1, call[c].df.columns, call[c].df.data[p])

\* A row whose first cell is missing was built into "a: , b: x", and a row
\* whose cells are all missing into "a: , b: ".
C13_Witness ==
  \E c \in Calls :
    /\ call[c].pc = "built"
    /\ Len(call[c].docs) = 2
    /\ ~notna(call[c].df.data[1][1])
    /\ call[c].docs[1] = "a: , b: x"
    /\ call[c].docs[2] = "a: , b: "

\* C14: a batch size B the caller supplies to an ingestion entry point
\* (add_df_to_db, add_csv_to_db, add_df_to_db_async) replaces the default:
\* the embedding requests and the add calls of that call have the batch
\* boundaries of B.
C14_SuppliedBatchSizeUsed ==
  \A c \in Calls :
    (call[c].pc # "idle" /\ call[c].supplied # None) =>
      LET B == call[c].supplied[1]
          N == Len(call[c].df.data)
          nb == (N + B - 1) \div B
          tasks == call[c].tasks
          adds == AddsOf(c)
      IN  /\ call[c].error.kind # "TypeError"
          /\ Len(call[c].docs) = N
          /\ Len(tasks) = nb
          /\ \A k \in 1..nb : tasks[k].content = BatchOf(call[c].docs, k, B)
          /\ call[c].pc = "done" => Len(adds) = nb
          /\ \A k \in 1..Len(adds) :
               /\ adds[k].args.ids = BatchOf(call[c].ids, k, B)
               /\ adds[k].args.documents = BatchOf(call[c].docs, k, B)

\* C15: a call issues no collection.add while one of its embedding requests
\* is unissued or outstanding, and issues its adds one at a time in batch
\* order: the k-th add is batch k's and follows the return of the (k-1)-th.
C15_AddsAfterEmbeddingsInOrder ==
  /\ [](\A c \in Calls :
          LET adds == AddsOf(c)
              B == call[c].batch_size
          IN  adds # <<>> =>
                /\ call[c].outer.state = "result"
                /\ \A b \in DOMAIN call[c].tasks :
                     /\ call[c].tasks[b].status = "ok"
                     /\ call[c].tasks[b].issued = 1
                /\ \A k \in 1..Len(adds) :
                     /\ adds[k].batch = k
                     /\ adds[k].args.ids = BatchOf(call[c].ids, k, B)
                     /\ k < Len(adds) => adds[k].ok)
  /\ [][addLog' # addLog =>
          \A c \in Calls :
            (\E k \in (Len(addLog) + 1)..Len(addLog') : addLog'[k].call = c) =>
              /\ call[c].tasks # <<>>
              /\ \A b \in DOMAIN call[c].tasks : call[c].tasks[b].status = "ok"]_vars

\* A call of three batches, the last of which arrived first, committed all
\* three in order.
C15_Witness ==
  \E c \in Calls :
    /\ call[c].pc = "done"
    /\ Len(AddsOf(c)) = 3
    /\ call[c].arrived[1].batch = 3
    /\ \A k \in 1..3 : AddsOf(c)[k].ok /\ AddsOf(c)[k].batch = k

\* C16: for N documents and batch size B >= 1 all ceil(N/B) embedding
\* requests are created and launched before the call waits for any result,
\* so that all of them are in flight together.
C16_IssueThenJoin ==
  /\ [](\A c \in Calls :
          (call[c].pc # "idle" /\ call[c].batch_size >= 1) =>
            /\ Len(call[c].tasks) =
                 (Len(call[c].docs) + call[c].batch_size - 1) \div call[c].batch_size
            /\ \A b \in DOMAIN call[c].tasks : call[c].tasks[b].issued >= 1)
  /\ [][\A c \in Calls :
          (call[c].pc = "idle" /\ call'[c].pc = "awaiting") =>
            /\ call'[c].outer.state = "pending"
            /\ call'[c].arrived = <<>>
            /\ \A b \in DOMAIN call'[c].tasks :
                 /\ call'[c].tasks[b].status = "pending"
                 /\ call'[c].tasks[b].issued = 1]_vars

\* Three requests of one call are in flight at once.
C16_Witness ==
  \E c \in Calls :
    /\ call[c].pc = "awaiting"
    /\ Len(call[c].tasks) = 3
    /\ \A b \in 1..3 :
         call[c].tasks[b].status = "pending" /\ call[c].tasks[b].issued = 1

\* C17: every batch gets exactly one embedding request: no request is issued
\* again, neither after it failed nor after another one failed, and one
\* failing batch makes the join fail.
C17_OneRequestPerBatchNoRetry ==
  /\ [](\A c \in Calls : \A b \in DOMAIN call[c].tasks :
          /\ call[c].tasks[b].issued = 1
          /\ call[c].tasks[b].status = "failed" =>
               /\ call[c].outer.state = "exception"
               /\ call[c].pc \in {"awaiting", "raised"})
  /\ [][call' # call =>
          \A c \in Calls : \A b \in DOMAIN call[c].tasks :
            /\ b \in DOMAIN call'[c].tasks
            /\ call'[c].tasks[b].issued = call[c].tasks[b].issued
            /\ call'[c].tasks[b].content = call[c].tasks[b].content
            /\ call[c].tasks[b].status # "pending" =>
                 call'[c].tasks[b].status = call[c].tasks[b].status]_vars

\* A call failed on one request; another request of it failed afterwards;
\* none was issued again.
C17_Witness ==
  \E c \in Calls :
    /\ call[c].pc = "raised"
    /\ call[c].error.kind = "EmbeddingServiceError"
    /\ \E b \in DOMAIN call[c].tasks : call[c].tasks[b].status = "failed"
    /\ \E b \in DOMAIN call[c].tasks : call[c].tasks[b].status = "discarded"
    /\ \A b \in DOMAIN call[c].tasks : call[c].tasks[b].issued = 1

\* C18: the commit phases of concurrent ingestion calls do not interleave:
\* no call is ever suspended inside its commit loop, the adds of one call are
\* next to each other in the order of all adds, and the step that issues them
\* is a step of that call alone.
C18_CommitPhasesDoNotInterleave ==
  /\ [](\A c \in Calls : call[c].pc # "committing")
  /\ [](\A i, j, k \in DOMAIN addLog :
          (i < j /\ j < k /\ addLog[i].call = addLog[k].call) =>
            addLog[j].call = addLog[i].call)
  /\ [][addLog' # addLog =>
          \E c \in Calls :
            /\ call[c].pc = "awaiting"
            /\ call'[c].pc \in {"done", "raised"}
            /\ \A d \in Calls \ {c} : call'[d] = call[d]
            /\ Len(addLog') > Len(addLog)
            /\ \A k \in 1..Len(addLog) : addLog'[k] = addLog[k]
            /\ \A k \in (Len(addLog) + 1)..Len(addLog') : addLog'[k].call = c]_vars

\* Two calls whose embedding phases overlapped: the call started second
\* committed first, then the call started first committed its two batches.
C18_Witness ==
  /\ Len(addLog) = 3
  /\ addLog[1].call = "c2"
  /\ addLog[2].call = "c1"
  /\ addLog[3].call = "c1"

\* C19: ingesting a dataset of no rows with a positive batch_size completes,
\* issues no embedding request and no collection.add and leaves the
\* collection as it was; no add is ever issued with an empty batch.
C19_EmptyDatasetNoRequests ==
  /\ [](\A c \in Calls :
          (call[c].pc # "idle" /\ Len(call[c].df.data) = 0
             /\ call[c].batch_size >= 1) =>
            /\ call[c].pc = "done"
            /\ call[c].tasks = <<>>
            /\ AddsOf(c) = <<>>)
  /\ [](\A k \in DOMAIN addLog :
          /\ Len(addLog[k].args.ids) >= 1
          /\ Len(addLog[k].args.documents) >= 1)
  /\ [][\A c \in Calls :
          (call[c].pc = "idle" /\ call'[c].pc # "idle"
             /\ Len(call'[c].df.data) = 0 /\ call'[c].batch_size >= 1) =>
            (chroma' = chroma /\ collection' = collection /\ addLog' = addLog)]_vars

\* A call given no rows completed while the collection held entries.
C19_Witness ==
  \E c \in Calls :
    /\ call[c].pc = "done"
    /\ Len(call[c].df.data) = 0
    /\ call[c].batch_size = 2
    /\ Len(chroma.entries) >= 2

=============================================================================
